---- MODULE Spec2Model ----
(***************************************************************************)
(* Model of discord_summarizer: the SummarizerCog of bot.py (message       *)
(* collection, the conversation chunking of _fetch_message_history, the    *)
(* periodic check_conversations sweep, channel tracking, guild removal)    *)
(* and the Summarizer of llm.py as far as "was the body run on a chunk".   *)
(* Time is in minutes.  A message is [timestamp, id]; author, content and  *)
(* attachments never decide an order because ids are unique.               *)
(***************************************************************************)
EXTENDS Integers, Sequences, FiniteSets, TLC

\* ------------------------------------------------------------- constants
START_DIFF == 15
END_DIFF == 60
FALLBACK == 180
MIN_CLUSTER == 5
NoStamp == -1

\* ---------------------------------------------------------------- bounds
MaxMsgs == 2
PreHistory == 4
MaxNow == 62
MaxLen == 6
MaxBuf == 7

Channels == {1}
Deltas == {31}
ScanStamps == {0, 1, 2, 3, 4, 20, 21, 70}

VARIABLES
    now,                \* wall clock, datetime.now(tz=utc)
    feed,               \* the platform's history of each channel, oldest first
    in_guild,           \* the bot is a member of the guild (bot.guilds)
    message_collection, \* self.message_collection[guild.id]: channel id -> list
    last_validated,     \* self.yaml_data.last_validated: channel id -> ChannelStatus
    tracked_channels,   \* self.yaml_data.tracked_channels: None or a set of keys
    order,              \* insertion order of the keys of message_collection
    yaml_file,          \* the persisted document written by save_yaml
    fetch,              \* per channel: the _fetch_message_history call in flight
    sweep_alive,        \* the check_conversations loop has not died of an exception
    finalized,          \* chunks handed to a summarize_messages(...) call expression
    summarized,         \* chunks on which the body of summarize_messages ran
    processed,          \* per channel: the messages completed evaluations fetched
    last                \* the handler of the bot that ran last, its channel, the
                        \* chunks it handed to summarize_messages

vars == <<now, feed, in_guild, message_collection, order, last_validated,
          tracked_channels, yaml_file, fetch, sweep_alive, finalized, summarized,
          processed, last>>

\* ------------------------------------------------------- values and keys
None == {<<"None", 0>>}
StrKey(c) == <<"str", c>>
IntKey(c) == <<"int", c>>

Msg(t, i) == [timestamp |-> t, id |-> i]
ChannelStatus(t, a) == [checked_at |-> t, active |-> a]
IdleFetch == [pc |-> "idle", after |-> 0, messages |-> <<>>, by |-> "none"]

\* dataclass(order=True): compare (timestamp, id, ...) lexicographically
MsgLess(a, b) ==
    \/ a.timestamp < b.timestamp
    \/ a.timestamp = b.timestamp /\ a.id < b.id

RECURSIVE Insert(_, _)
Insert(s, m) ==
    IF s = <<>> THEN <<m>>
    ELSE IF MsgLess(m, s[Len(s)]) THEN Append(Insert(SubSeq(s, 1, Len(s) - 1), m), s[Len(s)])
    ELSE Append(s, m)

\* the list left in the order it was received
Unsorted(s) == s

RECURSIVE Sorted(_)
Sorted(s) ==
    IF s = <<>> THEN <<>>
    ELSE Insert(Sorted(SubSeq(s, 1, Len(s) - 1)), s[Len(s)])

Range(s) == {s[i] : i \in 1..Len(s)}
Buffer(c) == IF c \in DOMAIN message_collection THEN message_collection[c] ELSE <<>>
Touch(o, c) == IF c \in Range(o) THEN o ELSE Append(o, c)
SetKey(f, k, v) == [x \in DOMAIN f \cup {k} |-> IF x = k THEN v ELSE f[x]]
DelKey(f, k) == [x \in DOMAIN f \ {k} |-> f[x]]
TotalMsgs == Cardinality(UNION {Range(feed[c]) : c \in Channels})

\* ------------------------------------------------------ the chunking scan
ScanInit ==
    [chunks |-> <<>>, current_chunk |-> <<>>, in_conversation |-> FALSE,
     validate_stamp |-> NoStamp]

\* the comparison of line 135 turned around
StartDetectedWithin(earlier, msg) == earlier.timestamp > msg.timestamp - START_DIFF

\* bot.py:135  current_chunk[-5].timestamp < msg.timestamp - START_DIFF
StartDetected(earlier, msg) == earlier.timestamp < msg.timestamp - START_DIFF

\* bot.py:142  current_chunk[-5].timestamp > msg.timestamp - END_DIFF
EndDetected(earlier, msg) == earlier.timestamp > msg.timestamp - END_DIFF

\* one iteration of "for msg in messages" (bot.py:130-148)
ScanStep(st, msg) ==
    LET cc == Append(st.current_chunk, msg)
        n == Len(cc)
    IN  IF n < MIN_CLUSTER THEN [st EXCEPT !.current_chunk = cc]
        ELSE IF ~st.in_conversation
        THEN IF StartDetected(cc[n - 4], msg)
             THEN [st EXCEPT !.in_conversation = TRUE,
                             !.current_chunk = SubSeq(cc, n - 4, n),
                             !.validate_stamp = cc[n - 4].timestamp]
             ELSE [st EXCEPT !.current_chunk = cc]
        ELSE IF EndDetected(cc[n - 4], msg)
             THEN [chunks |-> Append(st.chunks, cc),
                   current_chunk |-> <<>>,
                   in_conversation |-> FALSE,
                   validate_stamp |-> msg.timestamp]
             ELSE [st EXCEPT !.current_chunk = cc]

RECURSIVE Scan(_)
Scan(msgs) ==
    IF msgs = <<>> THEN ScanInit
    ELSE ScanStep(Scan(SubSeq(msgs, 1, Len(msgs) - 1)), msgs[Len(msgs)])

\* ------------------------------------------------------------ persistence
\* The persisted document is modelled by who wrote it.  save_yaml
\* (bot.py:85-92) writes yaml.dump(self.yaml_data): a BotData object, which
\* PyYAML tags !!python/object.  load_yaml (bot.py:73-83) reads with
\* yaml.safe_load, which refuses that tag; __init__ (bot.py:61-65) logs the
\* error and keeps BotData(last_validated={}) with tracked_channels None.  A
\* missing file gives the same.  Only a plain document written by hand is
\* read back: here an empty last_validated with either an empty tracked set
\* ("hand") or a tracked set that lists the channels by their int ids
\* ("hand_int").
\*
\* The outcomes of one call of save_yaml on document doc: the document is
\* written ("dump": what yaml.dump left in the file, whole or in part, which
\* safe_load does not read back to a BotData), or open(..., "w") fails and the
\* document stays as it was.  raised tells whether the call raises to its
\* caller.

\* save_yaml without the try/except of lines 87-92
save_yaml_raising(doc) ==
    {[file |-> "dump", raised |-> FALSE], [file |-> doc, raised |-> TRUE]}

\* save_yaml (bot.py:85-92): every Exception is caught and logged
save_yaml(doc) ==
    {[file |-> "dump", raised |-> FALSE], [file |-> doc, raised |-> FALSE]}

\* no call of save_yaml
NotSaved(doc) == {[file |-> doc, raised |-> FALSE]}

LoadYaml(doc) ==
    IF doc = "hand"
    THEN [last_validated |-> << >>, tracked_channels |-> {}]
    ELSE IF doc = "hand_int"
    THEN [last_validated |-> << >>, tracked_channels |-> {IntKey(c) : c \in Channels}]
    ELSE [last_validated |-> << >>, tracked_channels |-> None]

\* ------------------------------------------------------------------- Init
Emit(op, c, chunks) == [op |-> op, chan |-> c, emitted |-> chunks]

\* the messages already in a channel when the bot is constructed, all posted
\* at minute 0 (ids run through the channels in turn)
Earlier(c) == [i \in 1..PreHistory |-> Msg(0, (c - 1) * PreHistory + i)]

Init ==
    /\ now = 0
    /\ feed = [c \in Channels |-> Earlier(c)]
    /\ in_guild = TRUE
    /\ message_collection = << >>
    /\ order = <<>>
    /\ last_validated = << >>
    /\ yaml_file \in {"none", "hand", "hand_int"}
    /\ tracked_channels = LoadYaml(yaml_file).tracked_channels
    /\ fetch = [c \in Channels |-> IdleFetch]
    /\ sweep_alive = TRUE
    /\ finalized = {}
    /\ summarized = {}
    /\ processed = [c \in Channels |-> {}]
    /\ last = Emit("init", 0, <<>>)

\* ------------------------------------------------------------ environment
Tick(d) ==
    /\ now + d <= MaxNow
    /\ now' = now + d
    /\ UNCHANGED <<feed, in_guild, message_collection, order, last_validated,
                   tracked_channels, yaml_file, fetch, sweep_alive, finalized,
                   summarized, processed, last>>

\* on_message's gate (bot.py:346-353): channel.id is an int
Admitted(c) == tracked_channels = None \/ IntKey(c) \in tracked_channels

\* on_message as it would be if every arrival ran the chunking scan over the
\* channel's list and committed its result
on_message_evaluating(c, m) ==
    LET r == Scan(Sorted(Append(Buffer(c), m)))
        hit == Admitted(c) /\ r.validate_stamp # NoStamp
    IN  /\ IF Admitted(c)
           THEN /\ message_collection' =
                     SetKey(message_collection, c,
                            IF hit THEN r.current_chunk ELSE Append(Buffer(c), m))
                /\ order' = Touch(order, c)
           ELSE UNCHANGED <<message_collection, order>>
        /\ last_validated' =
             IF hit
             THEN SetKey(last_validated, c,
                         ChannelStatus(r.validate_stamp, r.in_conversation))
             ELSE last_validated
        /\ last' = Emit("on_message", c, <<>>)
        /\ UNCHANGED <<yaml_file, finalized, summarized, processed>>

\* on_message (bot.py:338-370): an admitted message is appended to the
\* channel's list; nothing else of the cog changes
on_message(c, m) ==
    /\ IF Admitted(c)
       THEN /\ message_collection' = SetKey(message_collection, c, Append(Buffer(c), m))
            /\ order' = Touch(order, c)
       ELSE UNCHANGED <<message_collection, order>>
    /\ last' = Emit("on_message", c, <<>>)
    /\ UNCHANGED <<last_validated, yaml_file, finalized, summarized, processed>>

\* a user posts in channel c at the current time; the gateway delivers the
\* message to on_message while the bot is a member of the guild
Post(c) ==
    /\ TotalMsgs < Cardinality(Channels) * PreHistory + MaxMsgs
    /\ Len(Buffer(c)) < MaxBuf
    /\ LET m == Msg(now, TotalMsgs + 1)
       IN  /\ feed' = [feed EXCEPT ![c] = Append(@, m)]
           /\ IF in_guild
              THEN on_message(c, m)
              ELSE UNCHANGED <<message_collection, order, last_validated, yaml_file,
                               finalized, summarized, processed, last>>
    /\ UNCHANGED <<now, in_guild, tracked_channels, fetch, sweep_alive>>

\* ----------------------------------------------- _fetch_message_history
\* bot.py:96-104: the lower bound of the history query is read up front;
\* channel.history(...) then suspends the coroutine
FetchBegin(c, lv, by) ==
    [pc |-> "fetching",
     after |-> IF c \in DOMAIN lv THEN lv[c].checked_at ELSE now - FALLBACK,
     messages |-> <<>>,
     by |-> by]

IsAfter(m, t) == m.timestamp > t
History(c, after) == SelectSeq(feed[c], LAMBDA m : IsAfter(m, after))

\* on_ready / on_guild_join (bot.py:326-336, 378-387), one channel of the loop
BackfillStart(c) ==
    /\ in_guild
    /\ fetch[c].pc = "idle"
    /\ Admitted(c)
    /\ fetch' = [fetch EXCEPT ![c] = FetchBegin(c, last_validated, "backfill")]
    /\ last' = Emit("fetch_start", c, <<>>)
    /\ UNCHANGED <<now, feed, in_guild, message_collection, order, last_validated,
                   tracked_channels, yaml_file, sweep_alive, finalized, summarized, processed>>

\* the platform answers the history query (bot.py:102-112)
FetchPage(c) ==
    /\ fetch[c].pc = "fetching"
    /\ fetch' = [fetch EXCEPT ![c] =
            [@ EXCEPT !.pc = "paged",
                      !.messages = IF in_guild THEN History(c, fetch[c].after)
                                    ELSE <<>>]]
    /\ last' = Emit("fetch_page", c, <<>>)
    /\ UNCHANGED <<now, feed, in_guild, message_collection, order, last_validated,
                   tracked_channels, yaml_file, sweep_alive, finalized, summarized, processed>>

\* bot.py:150-155: the checkpoint is written only when a stamp was recorded
Commit(lv, c, r) ==
    IF r.validate_stamp # NoStamp
    THEN SetKey(lv, c, ChannelStatus(r.validate_stamp, r.in_conversation))
    ELSE lv

\* bot.py:157: the list is replaced by the scan's current chunk
Replacement(extended, r) == r.current_chunk

\* a chunk as summarize_messages receives it
Chunk(c, msgs, by) == [chan |-> c, messages |-> msgs, by |-> by]
ChunkSeq(c, chunks, by) == [i \in 1..Len(chunks) |-> Chunk(c, chunks[i], by)]

\* llm.py:17-22: the body runs when awaited and returns early on an empty list
Awaited(chunks) == {k \in chunks : k.messages # <<>>}

\* the guard of line 123 left out
ClassifiesAlways(messages) == TRUE

\* bot.py:123: the chunking strategy is applied to a fetch of at least 5
Classifies(messages) == Len(messages) >= MIN_CLUSTER

\* bot.py:113-166, after the history query returned; track_channel's trailing
\* save_yaml (bot.py:207) when the call came from track_channel.  A save_yaml
\* that raised at line 155 would leave the function before line 157.
FetchFinish(c) ==
    /\ fetch[c].pc = "paged"
    /\ LET messages == fetch[c].messages
           extended == Buffer(c) \o messages
           classify == Classifies(messages)
           r == Scan(Sorted(messages))
           lv == IF classify THEN Commit(last_validated, c, r) ELSE last_validated
           commits == classify /\ r.validate_stamp # NoStamp
       IN  \E w \in (IF commits THEN save_yaml(yaml_file) ELSE NotSaved(yaml_file)) :
           \E t \in (IF fetch[c].by = "track" /\ ~w.raised
                      THEN save_yaml(w.file) ELSE NotSaved(w.file)) :
             LET chunks == IF classify /\ ~w.raised THEN r.chunks ELSE <<>>
                 result == IF classify /\ ~w.raised
                           THEN Replacement(extended, r) ELSE extended
             IN  /\ Len(result) <= MaxBuf
                 /\ message_collection' = SetKey(message_collection, c, result)
                 /\ order' = Touch(order, c)
                 /\ last_validated' = lv
                 /\ yaml_file' = t.file
                 /\ finalized' = finalized \cup Range(ChunkSeq(c, chunks, "engine"))
                 /\ summarized' =
                      summarized \cup Awaited(Range(ChunkSeq(c, chunks, "engine")))
                 /\ processed' = [processed EXCEPT ![c] = @ \cup Range(messages)]
                 /\ last' = Emit("fetch_finish", c, ChunkSeq(c, chunks, "engine"))
    /\ fetch' = [fetch EXCEPT ![c] = IdleFetch]
    /\ UNCHANGED <<now, feed, in_guild, tracked_channels, sweep_alive>>

\* ---------------------------------------------------------- track_channel
\* bot.py:181-199: the checkpoint seeded or reset when tracking is enabled
Seeded(lv, c) ==
    IF c \notin DOMAIN lv THEN SetKey(lv, c, ChannelStatus(now - FALLBACK, FALSE))
    ELSE IF lv[c].checked_at < now - FALLBACK
    THEN SetKey(lv, c, ChannelStatus(now - FALLBACK, FALSE))
    ELSE lv

\* track_channel(channel, track=True) up to the first suspension of the
\* history query it awaits (bot.py:168-200); the membership test of line 175
\* is made with the int id
TrackOn(c) ==
    /\ in_guild
    /\ tracked_channels # None
    /\ IntKey(c) \notin tracked_channels
    /\ fetch[c].pc = "idle"
    /\ tracked_channels' = tracked_channels \cup {StrKey(c)}
    /\ last_validated' = Seeded(last_validated, c)
    /\ fetch' = [fetch EXCEPT ![c] = FetchBegin(c, Seeded(last_validated, c), "track")]
    /\ last' = Emit("track_on", c, <<>>)
    /\ UNCHANGED <<now, feed, in_guild, message_collection, order, yaml_file,
                   sweep_alive, finalized, summarized, processed>>

\* bot.py:203-204 on a list of keys: the channel's key leaves the insertion order
Without(o, c) == SelectSeq(o, LAMBDA x : x # c)

\* track_channel(channel, track=False) (bot.py:168-179, 202-208): the test of
\* line 175 and the remove of line 203 use the int id; del raises KeyError
\* when the channel has no list, after the id has left the set and before
\* save_yaml
TrackOff(c) ==
    /\ in_guild
    /\ tracked_channels # None
    /\ fetch[c].pc = "idle"
    /\ IF IntKey(c) \notin tracked_channels
       THEN UNCHANGED <<tracked_channels, message_collection, order, yaml_file>>
       ELSE /\ tracked_channels' = tracked_channels \ {IntKey(c)}
            /\ IF c \in DOMAIN message_collection
               THEN /\ message_collection' = DelKey(message_collection, c)
                    /\ order' = Without(order, c)
                    /\ \E w \in save_yaml(yaml_file) : yaml_file' = w.file
               ELSE UNCHANGED <<message_collection, order, yaml_file>>
    /\ last' = Emit("track_off", c, <<>>)
    /\ UNCHANGED <<now, feed, in_guild, last_validated, fetch, sweep_alive,
                   finalized, summarized, processed>>

\* ------------------------------------------------------ check_conversations
\* bot.py:278  the fifth-newest message is within the last START_DIFF
SweepToActive(messages, time_to_active) ==
    /\ Len(messages) >= MIN_CLUSTER
    /\ messages[Len(messages) - 4].timestamp > time_to_active

\* bot.py:284  the fifth-newest message is older than END_DIFF
SweepToIdle(messages, time_to_idle) ==
    /\ Len(messages) >= MIN_CLUSTER
    /\ messages[Len(messages) - 4].timestamp < time_to_idle

\* the idle-to-active branch made to keep only the last 5 messages, as the
\* scan does on START
SweepActivateCollapsing(st, cid, messages) ==
    [st EXCEPT !.lv[cid].active = TRUE,
               !.mc[cid] = SubSeq(messages, Len(messages) - 4, Len(messages))]

\* bot.py:279: only the flag is set
SweepActivate(st, cid, messages) == [st EXCEPT !.lv[cid].active = TRUE]

\* the list cleared before it is handed to summarize_messages
SweepFinalizeCleared(st, cid, messages) ==
    IF in_guild
    THEN [st EXCEPT !.lv[cid].active = FALSE,
                    !.emitted = Append(@, Chunk(cid, <<>>, "sweep")),
                    !.mc[cid] = <<>>]
    ELSE [st EXCEPT !.lv[cid].active = FALSE, !.ok = FALSE]

\* bot.py:290-296: the call expression of summarize_messages is evaluated
\* (get_channel(cid) is None once the guild left the cache: AttributeError),
\* the coroutine it returns is dropped, the list is cleared
SweepFinalize(st, cid, messages) ==
    IF in_guild
    THEN [st EXCEPT !.lv[cid].active = FALSE,
                    !.emitted = Append(@, Chunk(cid, messages, "sweep")),
                    !.mc[cid] = <<>>]
    ELSE [st EXCEPT !.lv[cid].active = FALSE, !.ok = FALSE]

\* bot.py:297-299: KeyError when the channel has no ChannelStatus
SweepStamp(st, cid, time_to_active) ==
    IF cid \notin DOMAIN st.lv THEN [st EXCEPT !.ok = FALSE]
    ELSE [st EXCEPT !.lv[cid].checked_at = time_to_active]

\* one channel of the loop of bot.py:273-299; snapshot is the idle/active
\* classification taken before the loop (bot.py:264-270)
SweepVisit(st, cid, snapshot) ==
    LET messages == Sorted(st.mc[cid])
        idle == cid \in DOMAIN snapshot /\ ~snapshot[cid].active
        active == cid \in DOMAIN snapshot /\ snapshot[cid].active
        s1 == IF idle /\ SweepToActive(messages, now - START_DIFF)
              THEN SweepActivate(st, cid, messages)
              ELSE IF active /\ SweepToIdle(messages, now - END_DIFF)
              THEN SweepFinalize(st, cid, messages)
              ELSE st
    IN  IF ~st.ok THEN st
        ELSE IF ~s1.ok THEN s1
        ELSE SweepStamp(s1, cid, now - START_DIFF)

RECURSIVE SweepAll(_, _)
SweepAll(cids, snapshot) ==
    IF cids = <<>>
    THEN [lv |-> last_validated, mc |-> message_collection, emitted |-> <<>>, ok |-> TRUE]
    ELSE SweepVisit(SweepAll(SubSeq(cids, 1, Len(cids) - 1), snapshot),
                    cids[Len(cids)], snapshot)

\* one run of the tasks.loop body (bot.py:260-301); an exception leaves the
\* body before save_yaml and ends the loop, and so would a save_yaml that
\* raised
check_conversations ==
    /\ sweep_alive
    /\ LET r == SweepAll(order, last_validated)
       IN  \E w \in (IF r.ok THEN save_yaml(yaml_file) ELSE NotSaved(yaml_file)) :
           /\ last_validated' = r.lv
           /\ message_collection' = r.mc
           /\ finalized' = finalized \cup Range(r.emitted)
           /\ sweep_alive' = (r.ok /\ ~w.raised)
           /\ yaml_file' = w.file
           /\ last' = Emit(IF r.ok /\ ~w.raised THEN "sweep" ELSE "sweep_failed",
                           0, r.emitted)
    /\ UNCHANGED <<now, feed, in_guild, order, tracked_channels, fetch, summarized, processed>>

\* ------------------------------------------------------- guild membership
\* bot.py:396-398: str(channel_id) is removed for every buffered channel;
\* set.remove raises KeyError on a key that is not there
RECURSIVE RemoveTracked(_, _)
RemoveTracked(cids, tc) ==
    IF cids = <<>> THEN [tc |-> tc, ok |-> TRUE]
    ELSE LET r == RemoveTracked(SubSeq(cids, 1, Len(cids) - 1), tc)
             k == StrKey(cids[Len(cids)])
         IN  IF ~r.ok THEN r
             ELSE IF k \in r.tc THEN [tc |-> r.tc \ {k}, ok |-> TRUE]
             ELSE [tc |-> r.tc, ok |-> FALSE]

\* on_guild_remove (bot.py:389-403)
on_guild_remove ==
    /\ in_guild
    /\ in_guild' = FALSE
    /\ IF order = <<>>
       THEN UNCHANGED <<message_collection, order, tracked_channels, yaml_file>>
       ELSE IF tracked_channels = None
       THEN /\ message_collection' = << >>
            /\ order' = <<>>
            /\ UNCHANGED <<tracked_channels, yaml_file>>
       ELSE LET r == RemoveTracked(order, tracked_channels)
            IN  \E w \in (IF r.ok THEN save_yaml(yaml_file) ELSE NotSaved(yaml_file)) :
                /\ tracked_channels' = r.tc
                /\ yaml_file' = w.file
                /\ message_collection' =
                     IF r.ok /\ ~w.raised THEN << >> ELSE message_collection
                /\ order' = IF r.ok /\ ~w.raised THEN <<>> ELSE order
    /\ last' = Emit("on_guild_remove", 0, <<>>)
    /\ UNCHANGED <<now, feed, last_validated, fetch, sweep_alive, finalized, summarized, processed>>

\* the bot is added to the guild again; on_guild_join's loop is BackfillStart
GuildJoin ==
    /\ ~in_guild
    /\ in_guild' = TRUE
    /\ last' = Emit("on_guild_join", 0, <<>>)
    /\ UNCHANGED <<now, feed, message_collection, order, last_validated,
                   tracked_channels, yaml_file, fetch, sweep_alive, finalized, summarized, processed>>

\* the process is restarted: __init__ (bot.py:47-71) rebuilds the state from
\* the persisted document, the buffers start empty, the loop is started anew
Restart ==
    /\ last.op # "restart"
    /\ last_validated' = LoadYaml(yaml_file).last_validated
    /\ tracked_channels' = LoadYaml(yaml_file).tracked_channels
    /\ message_collection' = << >>
    /\ order' = <<>>
    /\ fetch' = [c \in Channels |-> IdleFetch]
    /\ sweep_alive' = TRUE
    /\ last' = Emit("restart", 0, <<>>)
    /\ UNCHANGED <<now, feed, in_guild, yaml_file, finalized, summarized, processed>>

\* ------------------------------------------------------------------ Spec
Next ==
    \/ \E d \in Deltas : Tick(d)
    \/ \E c \in Channels : Post(c)
    \/ \E c \in Channels : BackfillStart(c)
    \/ \E c \in Channels : FetchPage(c)
    \/ \E c \in Channels : FetchFinish(c)
    \/ \E c \in Channels : TrackOn(c)
    \/ \E c \in Channels : TrackOff(c)
    \/ check_conversations
    \/ on_guild_remove
    \/ GuildJoin
    \/ Restart

Spec == Init /\ [][Next]_vars

\* ------------------------------------------------- the scan on its inputs
\* Histories with one message at each of a set of minutes, oldest first: the
\* inputs of the chunking scan, with gaps below START_DIFF, between START_DIFF
\* and END_DIFF, and above END_DIFF.
RECURSIVE Ascending(_)
Ascending(S) ==
    IF S = {} THEN <<>>
    ELSE LET m == CHOOSE x \in S : \A y \in S : x <= y
         IN  <<m>> \o Ascending(S \ {m})

ScanHistory(S) == [i \in 1..Cardinality(S) |-> Msg(Ascending(S)[i], i)]
ScanHistories == {ScanHistory(S) : S \in {T \in SUBSET ScanStamps : Cardinality(T) <= MaxLen}}

\* the bot is constructed without a persisted document at minute 70, in
\* channels that hold one of the histories
InitScan ==
    /\ now = 70
    /\ feed \in [Channels -> ScanHistories]
    /\ in_guild = TRUE
    /\ message_collection = << >>
    /\ order = <<>>
    /\ last_validated = << >>
    /\ yaml_file = "none"
    /\ tracked_channels = None
    /\ fetch = [c \in Channels |-> IdleFetch]
    /\ sweep_alive = TRUE
    /\ finalized = {}
    /\ summarized = {}
    /\ processed = [c \in Channels |-> {}]
    /\ last = Emit("init", 0, <<>>)

NextScan ==
    \/ \E c \in Channels : BackfillStart(c)
    \/ \E c \in Channels : FetchPage(c)
    \/ \E c \in Channels : FetchFinish(c)
    \/ check_conversations

\* one process lifetime in one guild: every handler of the cog, without
\* restarts and without changes of guild membership
NextLife ==
    \/ \E d \in Deltas : Tick(d)
    \/ \E c \in Channels : Post(c)
    \/ \E c \in Channels : BackfillStart(c)
    \/ \E c \in Channels : FetchPage(c)
    \/ \E c \in Channels : FetchFinish(c)
    \/ \E c \in Channels : TrackOn(c)
    \/ \E c \in Channels : TrackOff(c)
    \/ check_conversations

SpecLife == Init /\ [][NextLife]_vars

SpecScan == InitScan /\ [][NextScan]_vars

\* ================================================================ claims
\* the step is the completion of an evaluation of channel c
Evaluated(c) ==
    /\ fetch[c].pc = "paged"
    /\ fetch'[c].pc = "idle"
    /\ last'.op = "fetch_finish"
    /\ last'.chan = c

\* the step is an admitted live arrival in channel c
Arrived(c) ==
    /\ Len(feed'[c]) = Len(feed[c]) + 1
    /\ c \in DOMAIN message_collection'
    /\ Len(message_collection'[c]) = Len(Buffer(c)) + 1

Dense(s) ==
    \A i \in 1..(Len(s) - 1) :
        /\ s[i].timestamp < s[i + 1].timestamp
        /\ s[i + 1].timestamp - s[i].timestamp < START_DIFF

\* C1: in an evaluation, when the conversation is active and the current
\* chunk holds at least 5 messages, message m ends the conversation exactly
\* when the compared earlier message (current_chunk[-5]) is more than END_DIFF
\* before m; then the current chunk is emitted, the current chunk is empty,
\* active is false and the candidate checked_at is m's timestamp.
C1_EndIffIdleGap ==
    \A c \in Channels :
        (fetch[c].pc = "paged" /\ Len(fetch[c].messages) >= MIN_CLUSTER) =>
            LET s == Sorted(fetch[c].messages)
            IN  \A k \in 1..Len(s) :
                    LET before == Scan(SubSeq(s, 1, k - 1))
                        after == ScanStep(before, s[k])
                        cc == Append(before.current_chunk, s[k])
                        n == Len(cc)
                        ended == Len(after.chunks) = Len(before.chunks) + 1
                    IN  (before.in_conversation /\ n >= MIN_CLUSTER) =>
                            /\ ended <=> cc[n - 4].timestamp < s[k].timestamp - END_DIFF
                            /\ ended => /\ after.chunks[Len(after.chunks)] = cc
                                        /\ after.current_chunk = <<>>
                                        /\ ~after.in_conversation
                                        /\ after.validate_stamp = s[k].timestamp

\* C2: an evaluation of 5 messages with strictly increasing timestamps whose
\* consecutive gaps are all below START_DIFF leaves the channel active with
\* checked_at the timestamp of the oldest of the 5, emits no chunk, and the
\* Buffer retains all 5.
C2_DenseClusterActivates ==
    [][\A c \in Channels :
        (/\ Evaluated(c)
         /\ Len(fetch[c].messages) = MIN_CLUSTER
         /\ Dense(Sorted(fetch[c].messages))) =>
            /\ c \in DOMAIN last_validated'
            /\ last_validated'[c].active
            /\ last_validated'[c].checked_at = Sorted(fetch[c].messages)[1].timestamp
            /\ last'.emitted = <<>>
            /\ message_collection'[c] = Sorted(fetch[c].messages)]_vars

\* C3: when the scan detects an END on the last message m of an evaluation,
\* exactly one chunk is emitted for it and it runs through the message before
\* m: m is not in the chunk, the replacement Buffer is exactly [m], active is
\* false and checked_at is m's timestamp.
C3_EndChunkExcludesTrigger ==
    [][\A c \in Channels :
        LET s == Sorted(fetch[c].messages)
            before == Scan(SubSeq(s, 1, Len(s) - 1))
            r == Scan(s)
            m == s[Len(s)]
        IN  (/\ Evaluated(c)
             /\ Len(s) >= MIN_CLUSTER
             /\ before.in_conversation
             /\ Len(r.chunks) = Len(before.chunks) + 1) =>
                /\ Len(last'.emitted) = Len(r.chunks)
                /\ last'.emitted[Len(r.chunks)].messages = before.current_chunk
                /\ m \notin Range(last'.emitted[Len(r.chunks)].messages)
                /\ message_collection'[c] = <<m>>
                /\ ~last_validated'[c].active
                /\ last_validated'[c].checked_at = m.timestamp]_vars

\* C4: a channel's checked_at never decreases in any step: engine commits,
\* sweeps and enable-tracking resets only move it forward.
C4_CheckedAtMonotone ==
    [][\A c \in DOMAIN last_validated \cap DOMAIN last_validated' :
        last_validated'[c].checked_at >= last_validated[c].checked_at]_vars

C6_SweepFinalizesIdle ==
    [][check_conversations =>
        \A c \in DOMAIN message_collection :
            (c \in DOMAIN last_validated /\ last_validated[c].active) =>
                IF SweepToIdle(Sorted(message_collection[c]), now - END_DIFF)
                THEN /\ message_collection'[c] = <<>>
                     /\ ~last_validated'[c].active
                     /\ last'.emitted
                          = <<Chunk(c, Sorted(message_collection[c]), "sweep")>>
                ELSE /\ message_collection'[c] = message_collection[c]
                     /\ last_validated'[c].active]_vars

\* C7: every chunk finalized by the engine or by the sweep has been run
\* through summarize_messages.  (No step of the program runs a coroutine that
\* was created and dropped, so a finalized chunk that is not summarized when
\* its handler returns never is.)
C7_FinalizedAreSummarized == finalized \subseteq summarized

\* C8: while an evaluation of a channel is in progress (from the start of its
\* history query until it has replaced the Buffer and committed) no other
\* step changes that channel's Buffer or Checkpoint.
C8_NoInterleaving ==
    [][\A c \in Channels :
        (fetch[c].pc # "idle" /\ fetch'[c] = fetch[c]) =>
            /\ (c \in DOMAIN message_collection') = (c \in DOMAIN message_collection)
            /\ Buffer(c) = IF c \in DOMAIN message_collection'
                           THEN message_collection'[c] ELSE <<>>
            /\ (c \in DOMAIN last_validated') = (c \in DOMAIN last_validated)
            /\ c \in DOMAIN last_validated => last_validated'[c] = last_validated[c]]_vars

\* C9: outside an evaluation in progress, a channel whose Checkpoint is active
\* has a non-empty Buffer.
C9_ActiveHasBuffer ==
    \A c \in DOMAIN last_validated :
        (last_validated[c].active /\ fetch[c].pc = "idle") => Buffer(c) # <<>>

\* C10: an evaluation whose history query returns only messages that earlier
\* evaluations of the channel already processed emits no chunk.
C10_ReevaluationEmitsNothing ==
    [][\A c \in Channels :
        (Evaluated(c) /\ Range(fetch[c].messages) \subseteq processed[c]) =>
            last'.emitted = <<>>]_vars

\* a sequence of messages in the canonical order: non-decreasing timestamps,
\* ids ascending between equal timestamps (a repeated message is in order)
InOrder(s) == \A i \in 1..(Len(s) - 1) : s[i] = s[i + 1] \/ MsgLess(s[i], s[i + 1])

\* C11: every chunk handed to summarize_messages, by the engine or by the
\* sweep, is in non-decreasing timestamp order with the id as tie-break.
C11_ChunksSorted == \A k \in finalized : InOrder(k.messages)

\* the sweep finalized a chunk in which two messages share a timestamp and
\* two others differ in it
C11_Witness ==
    \E k \in finalized :
        /\ k.by = "sweep"
        /\ \E i, j \in 1..Len(k.messages) :
              /\ k.messages[i].timestamp = k.messages[j].timestamp
              /\ k.messages[i].id < k.messages[j].id
        /\ \E i, j \in 1..Len(k.messages) :
              k.messages[i].timestamp < k.messages[j].timestamp

\* the gateway delivers a new message of channel c to on_message
Delivered(c) == in_guild /\ Len(feed'[c]) = Len(feed[c]) + 1

\* the channel's id is in the tracked-set, whatever the type of the key
InTrackedSet(c) == \E k \in tracked_channels : k[2] = c

\* C12: in whitelist mode a delivered live message is appended to its
\* channel's Buffer if and only if the channel's id is in the tracked-set; in
\* open mode every delivered message is appended.
C12_AdmissionGate ==
    [][\A c \in Channels :
        Delivered(c) =>
            ((tracked_channels = None \/ InTrackedSet(c))
               <=> /\ c \in DOMAIN message_collection'
                   /\ message_collection'[c]
                        = Append(Buffer(c), feed'[c][Len(feed'[c])]))]_vars

\* C13: disabling tracking for a channel of the tracked-set removes it from
\* the set and leaves neither a Buffer nor a Checkpoint entry for it.
C13_DisableDiscards ==
    [][\A c \in Channels :
        (TrackOff(c) /\ InTrackedSet(c)) =>
            /\ ~(\E k \in tracked_channels' : k[2] = c)
            /\ c \notin DOMAIN message_collection'
            /\ c \notin DOMAIN last_validated']_vars

\* C14: a sweep in which the evaluation of a channel fails still leaves the
\* loop running, so that later sweeps run: after every run of
\* check_conversations the loop is alive.
C14_SweepSurvivesFailure ==
    [][check_conversations => sweep_alive']_vars

\* C15: an evaluation to which fewer than 5 messages are available makes no
\* classification attempt: it emits no chunk, leaves every Checkpoint as it
\* was, and the Buffer is the prior Buffer with the fetched messages appended.
C15_FewMessagesNoOp ==
    [][\A c \in Channels :
        (Evaluated(c) /\ Len(fetch[c].messages) < MIN_CLUSTER) =>
            /\ last'.emitted = <<>>
            /\ finalized' = finalized
            /\ last_validated' = last_validated
            /\ message_collection'[c] = Buffer(c) \o fetch[c].messages]_vars

\* Scenario A: an evaluation that fetched 4 messages ended; they are in the
\* Buffer, nothing was emitted and the channel is not active
C15_Witness ==
    \E c \in DOMAIN message_collection :
        /\ last.op = "fetch_finish"
        /\ last.chan = c
        /\ last.emitted = <<>>
        /\ Len(message_collection[c]) = MIN_CLUSTER - 1
        /\ c \in DOMAIN last_validated => ~last_validated[c].active
        /\ finalized = {}

\* C16: in an evaluation, when the conversation is not active and the current
\* chunk holds at least 5 messages, message m starts a conversation exactly
\* when the compared earlier message (current_chunk[-5], the first of the last
\* 5) is more than START_DIFF before m; then the current chunk is its last 5
\* messages, active is true and the candidate checked_at is the timestamp of
\* the first of them.
C16_StartIffGap ==
    \A c \in Channels :
        (fetch[c].pc = "paged" /\ Len(fetch[c].messages) >= MIN_CLUSTER) =>
            LET s == Sorted(fetch[c].messages)
            IN  \A k \in 1..Len(s) :
                    LET before == Scan(SubSeq(s, 1, k - 1))
                        after == ScanStep(before, s[k])
                        cc == Append(before.current_chunk, s[k])
                        n == Len(cc)
                        started == ~before.in_conversation /\ after.in_conversation
                    IN  (~before.in_conversation /\ n >= MIN_CLUSTER) =>
                            /\ started <=> s[k].timestamp - cc[n - 4].timestamp > START_DIFF
                            /\ started => /\ after.current_chunk = SubSeq(cc, n - 4, n)
                                          /\ after.in_conversation
                                          /\ after.validate_stamp
                                               = after.current_chunk[1].timestamp
                                          /\ after.chunks = before.chunks

\* an evaluation ended with a START on its last message: the Buffer is the
\* last 5 fetched messages, the channel is active since the first of them,
\* which is more than START_DIFF before the last
C16_Witness ==
    \E c \in DOMAIN message_collection \cap DOMAIN last_validated :
        /\ last.op = "fetch_finish"
        /\ last.chan = c
        /\ last.emitted = <<>>
        /\ Len(message_collection[c]) = MIN_CLUSTER
        /\ last_validated[c].active
        /\ last_validated[c].checked_at = message_collection[c][1].timestamp
        /\ message_collection[c][MIN_CLUSTER].timestamp
             - message_collection[c][1].timestamp > START_DIFF

\* the messages of the chunks a step handed to summarize_messages
EmittedMessages == UNION {Range(last'.emitted[i].messages) : i \in 1..Len(last'.emitted)}

\* C17: a message that was in the Buffer before an evaluation and is not among
\* the fetched messages (the scan's START collapse discards fetched messages
\* only) is afterwards still in the Buffer or part of an emitted chunk.
C17_PriorBufferKept ==
    [][\A c \in Channels :
        Evaluated(c) =>
            \A x \in Range(Buffer(c)) \ Range(fetch[c].messages) :
                x \in Range(message_collection'[c]) \cup EmittedMessages]_vars

\* C18: an evaluation that commits no Checkpoint leaves the Buffer as it was,
\* at most with the fetched messages appended (it does not replace it), and an
\* evaluation that commits a Checkpoint also replaces the Buffer by the
\* scan's unresolved tail.
C18_EngineAtomic ==
    [][\A c \in Channels :
        Evaluated(c) =>
            LET appended == Buffer(c) \o fetch[c].messages
                r == Scan(Sorted(fetch[c].messages))
                committed == last_validated' # last_validated
            IN  /\ ~committed => message_collection'[c] \in {Buffer(c), appended}
                /\ committed => message_collection'[c] = r.current_chunk]_vars

\* C19: when the sweep visits an idle channel whose Buffer has at least 5
\* messages with the fifth-from-end newer than now - START_DIFF, it sets
\* active=true, leaves the Buffer exactly as it was and emits no chunk.
C19_SweepActivatesOnly ==
    [][check_conversations =>
        \A c \in DOMAIN message_collection :
            (/\ c \in DOMAIN last_validated
             /\ ~last_validated[c].active
             /\ SweepToActive(Sorted(message_collection[c]), now - START_DIFF)) =>
                /\ last_validated'[c].active
                /\ message_collection'[c] = message_collection[c]
                /\ \A i \in 1..Len(last'.emitted) : last'.emitted[i].chan # c
                /\ finalized' = finalized]_vars

\* a sweep has just run over a channel with more than 5 buffered messages of
\* which the fifth-from-end is newer than now - START_DIFF: the channel is
\* active, nothing was ever finalized
C19_Witness ==
    \E c \in DOMAIN message_collection \cap DOMAIN last_validated :
        /\ last.op = "sweep"
        /\ last.emitted = <<>>
        /\ finalized = {}
        /\ last_validated[c].active
        /\ last_validated[c].checked_at = now - START_DIFF
        /\ Len(message_collection[c]) > MIN_CLUSTER
        /\ SweepToActive(Sorted(message_collection[c]), now - START_DIFF)

\* C20: after a run of the sweep at time now every channel that has a Buffer
\* entry, with or without a Checkpoint before the run, has checked_at equal to
\* now - START_DIFF.
C20_SweptStamped ==
    [][check_conversations =>
        \A c \in DOMAIN message_collection :
            /\ c \in DOMAIN last_validated'
            /\ last_validated'[c].checked_at = now - START_DIFF]_vars

\* C21: a save_yaml that fails is absorbed.  An evaluation that commits a
\* Checkpoint and whose write leaves the document unwritten still has the
\* Checkpoint committed, the Buffer replaced by the scan's tail and the
\* completed chunks forwarded and summarized; a sweep all of whose channels
\* were evaluated still completes, with its changes applied and the loop
\* alive, whatever became of the write.
C21_SaveFailureAbsorbed ==
    [][/\ \A c \in Channels :
            LET r == Scan(Sorted(fetch[c].messages))
            IN  (/\ Evaluated(c)
                 /\ Classifies(fetch[c].messages)
                 /\ r.validate_stamp # NoStamp
                 /\ yaml_file' # "dump") =>
                    /\ last_validated'[c] = ChannelStatus(r.validate_stamp, r.in_conversation)
                    /\ message_collection'[c] = r.current_chunk
                    /\ last'.emitted = ChunkSeq(c, r.chunks, "engine")
                    /\ Awaited(Range(last'.emitted)) \subseteq summarized'
       /\ (check_conversations /\ SweepAll(order, last_validated).ok) =>
            /\ sweep_alive'
            /\ last_validated' = SweepAll(order, last_validated).lv
            /\ message_collection' = SweepAll(order, last_validated).mc]_vars

\* an evaluation in open mode ended a conversation and forwarded its chunk
\* while no write of the document has ever succeeded
C21_Witness ==
    \E c \in DOMAIN last_validated :
        /\ tracked_channels = None
        /\ yaml_file = "none"
        /\ last.op = "fetch_finish"
        /\ last.chan = c
        /\ last.emitted # <<>>
        /\ Range(last.emitted) \subseteq summarized
        /\ ~last_validated[c].active

\* C22: every chunk handed to summarize_messages, by the engine's END or by
\* the sweep's idle transition, holds at least 5 messages.
C22_ChunkSizeAtLeastFive == \A k \in finalized : Len(k.messages) >= MIN_CLUSTER

\* the sweep finalized, and summarize_messages was called with, a chunk of
\* exactly 5 messages
C22_Witness ==
    \E k \in finalized :
        /\ k.by = "sweep"
        /\ Len(k.messages) = MIN_CLUSTER
        /\ last.op = "sweep"
        /\ k \in Range(last.emitted)

\* C23: no channel's Buffer holds two messages with the same id.
C23_NoDuplicateIds ==
    \A c \in DOMAIN message_collection :
        \A i, j \in 1..Len(message_collection[c]) :
            message_collection[c][i].id = message_collection[c][j].id => i = j

====
